---- MODULE Spec2Model ----
(***************************************************************************)
(* Monte Carlo option pricing engine: the orchestrator (MCMediator), the   *)
(* Euler scheme on a GBM model, and the four payoff accumulators of        *)
(* Pricers.hpp.                                                            *)
(*                                                                         *)
(* Numbers.  The inputs are small integers, for which the code's double    *)
(* arithmetic (+, -, * and sqrt of a perfect square) is exact.  Values     *)
(* that are quotients (an average, a price) are kept as exact fractions    *)
(* [num, den]; den = 0 encodes the IEEE results of a division by zero:     *)
(* [0,0] is NaN, [1,0] is +inf, [-1,0] is -inf.                            *)
(***************************************************************************)
EXTENDS Integers, Sequences, FiniteSets, TLC

VARIABLES
    sde,        \* the GBM model: [mu, vol, div, ic, exp]
    fdm,        \* the scheme: [NT, k, dtSqrt, x]
    opt,        \* OptionData: [K, type, disc]
    NSim,       \* MCMediator::NSim, the path count M
    wired,      \* the pricer the builder wired into f1 / f2
    pr,         \* the pricers: kind -> [sum, NSim, price]
    brg,        \* BrownianBridgePricer's own fields: [counter, pos]
    pc,         \* position of MCMediator::start()
    i,          \* start(): the path index
    n,          \* start(): the step index
    VOld,       \* start(): the local VOld
    res,        \* MCMediator::res, the one path buffer
    rng,        \* the path generator: [pos]
    zs,         \* the variates the path generator has delivered
    us,         \* the uniforms the bridge pricer's generator has delivered
    events,     \* the events emitted so far, in order
    computed,   \* advance() calls made for the path being generated
    phase,      \* 1: the run; 2: the second run over the same streams
    first,      \* the first run's outputs, kept for the second
    fin,        \* kind -> PostProcess() has run
    dirty,      \* kind -> ProcessPath() ran since the last PostProcess()
    lastCall,   \* the last call made on a pricer from outside a run
    sch,        \* the scheme's class and its scratch fields
    adv,        \* the last two advance() calls made from outside a run
    reached,    \* some path handed to the pricers had an entry at or above L
    dbl,        \* a run of start() whose state values are IEEE doubles
    acc,        \* the accumulators over doubles: kind -> [sum, NSim, price]
    gen         \* a generator inside GenerateRn(): its locals and position

vars == <<sde, fdm, opt, NSim, wired, pr, brg, pc, i, n, VOld, res, rng, zs,
          us, events, computed, phase, first, fin, dirty, lastCall, sch, adv,
          reached, dbl, acc, gen>>

(***************************************************************************)
(* Bounds and program constants.                                           *)
(***************************************************************************)
MaxM == 2
MaxFeed == 2

BarrierL == 170
Rebate == 0
MisPeriod == 100
StrikeK == 65

Kinds == {"European", "Asian", "Barrier", "Bridge"}
InitialConditions == {100, 200}
Drifts == {0, 1}
Vols == {1}
Dividends == {0}
OptionTypes == {1, -1}
Variates == {-1, 1}
\* A uniform draw d: 0 stands for u = 0.0; d >= 1 for u = exp(-d / 8).
Uniforms == {0, 1}
\* The discount factors exp(-r T) the discounter may return, as fractions.
Discounts == {[num |-> 1, den |-> 1], [num |-> 1, den |-> 2]}

(***************************************************************************)
(* Exact fractions standing for the code's doubles.  A double of magnitude *)
(* 2^53 or more is [num, den, big], standing for (big * 2^53 + num) / den  *)
(* with |num| far below 2^53: the doubles there are 2, 4, ... apart, and a *)
(* sum or a product that falls between two of them is rounded to the       *)
(* nearest, to the one with the even significand on a tie.  Below 2^53 no  *)
(* rounding is followed.                                                   *)
(***************************************************************************)
Sign(a) == IF a > 0 THEN 1 ELSE IF a < 0 THEN -1 ELSE 0

Abs(a) == IF a < 0 THEN -a ELSE a

RECURSIVE Gcd(_, _)
Gcd(a, b) == IF b = 0 THEN a ELSE Gcd(b, a % b)

\* num / den in lowest terms with den >= 0; x / 0 is +-inf, 0 / 0 is NaN.
Frac(num, den) ==
    IF den = 0 THEN [num |-> Sign(num), den |-> 0]
    ELSE LET g == Gcd(Abs(num), Abs(den))
             s == Sign(den)
         IN  [num |-> s * (num \div g), den |-> s * (den \div g)]

RInt(a) == [num |-> a, den |-> 1]

Big(a) == IF "big" \in DOMAIN a THEN a.big ELSE 0

\* (h * 2^53 + l) / d for d > 0, in lowest terms.
Wide(h, l, d) ==
    IF h = 0 THEN Frac(l, d)
    ELSE LET g == Gcd(Gcd(Abs(h), Abs(l)), d)
         IN  [num |-> l \div g, den |-> d \div g, big |-> h \div g]

RECURSIVE IsPowerOfTwo(_)
IsPowerOfTwo(h) == h = 1 \/ (h > 1 /\ h % 2 = 0 /\ IsPowerOfTwo(h \div 2))

\* The distance of the doubles from h * 2^53 up, for h >= 1.
RECURSIVE Ulp(_)
Ulp(h) == IF h = 1 THEN 2 ELSE 2 * Ulp(h \div 2)

\* The double nearest to h * 2^53 + l, for integers h # 0 and l.
RoundWide(h, l) ==
    LET s == Sign(h)
        H == s * h
        L == s * l
        u == IF L < 0 /\ IsPowerOfTwo(H) THEN Ulp(H) \div 2 ELSE Ulp(H)
        q == L \div u
        r == L - q * u
        m == IF 2 * r < u THEN q
             ELSE IF 2 * r > u THEN q + 1
             ELSE IF q % 2 = 0 THEN q ELSE q + 1
    IN  Wide(h, s * m * u, 1)

\* The double a sum or product (h * 2^53 + l) / d is stored as; a value that
\* is not an integer is kept as it is.
Stored(h, l, d) ==
    IF h # 0 /\ d = 1 THEN RoundWide(h, l) ELSE Wide(h, l, d)

IsNaN(r) == r.den = 0 /\ r.num = 0

IsFinite(r) == r.den # 0

\* Each operand is evaluated once, as the operands of + are.
RAdd(lhs, rhs) ==
    CHOOSE q \in
      {IF IsNaN(a) \/ IsNaN(b) THEN [num |-> 0, den |-> 0]
       ELSE IF a.den = 0 /\ b.den = 0
            THEN (IF a.num = b.num THEN a ELSE [num |-> 0, den |-> 0])
       ELSE IF a.den = 0 THEN a
       ELSE IF b.den = 0 THEN b
       ELSE IF Big(a) = 0 /\ Big(b) = 0
            THEN Frac(a.num * b.den + b.num * a.den, a.den * b.den)
       ELSE Stored(Big(a) * b.den + Big(b) * a.den, a.num * b.den + b.num * a.den,
                   a.den * b.den) : a \in {lhs}, b \in {rhs}} : TRUE

RNeg(a) ==
    IF Big(a) = 0 THEN [num |-> -a.num, den |-> a.den]
    ELSE [num |-> -a.num, den |-> a.den, big |-> -a.big]

RSub(a, b) == RAdd(a, RNeg(b))

\* Each operand is evaluated once, as the operands of * are.
RMul(lhs, rhs) ==
    CHOOSE q \in
      {IF IsNaN(a) \/ IsNaN(b) THEN [num |-> 0, den |-> 0]
       ELSE IF a.den = 0 \/ b.den = 0
            THEN [num |-> Sign(a.num) * Sign(b.num), den |-> 0]
       ELSE IF Big(a) = 0 /\ Big(b) = 0 THEN Frac(a.num * b.num, a.den * b.den)
       ELSE IF Big(b) = 0 THEN Stored(a.big * b.num, a.num * b.num, a.den * b.den)
       ELSE IF Big(a) = 0 THEN Stored(b.big * a.num, a.num * b.num, a.den * b.den)
       ELSE [num |-> Sign(a.big) * Sign(b.big), den |-> 0] : a \in {lhs}, b \in {rhs}} : TRUE

\* a / m for an integer count m >= 0; x / 0 is +-inf, 0 / 0 is NaN.
RDivInt(a, m) ==
    IF a.den = 0 THEN a
    ELSE IF Big(a) = 0 THEN Frac(a.num, a.den * m)
    ELSE IF m = 0 THEN Frac(a.big, 0)
    ELSE Wide(a.big, a.num, a.den * m)

\* a < b as operator< on doubles: false when either is NaN.
RLt(a, b) ==
    /\ ~IsNaN(a)
    /\ ~IsNaN(b)
    /\ IF a.den = 0 /\ b.den = 0 THEN a.num < b.num
       ELSE IF Big(a) * b.den # Big(b) * a.den
            THEN Big(a) * b.den < Big(b) * a.den
       ELSE a.num * b.den < b.num * a.den

RGt(a, b) == RLt(b, a)

\* a >= b on doubles: false when either is NaN.
RGe(a, b) == ~IsNaN(a) /\ ~IsNaN(b) /\ ~RLt(a, b)

\* a <= b on doubles: false when either is NaN.
RLe(a, b) == RGe(b, a)

RMaxOrdered(a, b) == IF RLt(b, a) THEN a ELSE b

\* std::max(a, b) is (a < b) ? b : a
RMax(a, b) == IF RLt(a, b) THEN b ELSE a

IsSquare(a) == \E r \in 0..a : r * r = a

\* std::sqrt of a perfect square.
Sqrt(a) == CHOOSE r \in 0..a : r * r = a

Back(path) == path[Len(path)]

\* A std::vector<double> whose entries are the integers of buf.
Doubles(buf) == [j \in DOMAIN buf |-> RInt(buf[j])]

\* std::accumulate(path.begin(), path.end(), 0.0), over the first j entries.
RECURSIVE Accumulate(_, _)
Accumulate(path, j) ==
    IF j = 0 THEN RInt(0)
    ELSE CHOOSE q \in {RAdd(init, path[j]) : init \in {Accumulate(path, j - 1)}} : TRUE

(***************************************************************************)
(* SDE.hpp: the GBM model.                                                 *)
(***************************************************************************)
GBM(driftCoefficient, diffusionCoefficient, dividendYield, initialCondition, expiry) ==
    [mu |-> driftCoefficient, vol |-> diffusionCoefficient,
     div |-> dividendYield, ic |-> initialCondition, exp |-> expiry]

Drift(s, x, t) == (s.mu - s.div) * x

Diffusion(s, x, t) == s.vol * x

DiffusionDerivative(s, x, t) == s.vol

InitialCondition(s) == s.ic

Expiry(s) == s.exp

\* void InitialCondition(double val) and void Expiry(double val): public.
InitialConditionSet(s, val) == [s EXCEPT !.ic = val]

ExpirySet(s, val) == [s EXCEPT !.exp = val]

(***************************************************************************)
(* Fdm.hpp: FdmBase and the Euler scheme.                                  *)
(***************************************************************************)
RECURSIVE Grid(_, _)
Grid(m, k) == IF m = 0 THEN <<0>> ELSE Append(Grid(m - 1, k), Grid(m - 1, k)[m] + k)

\* The constructor, for NT >= 1 dividing the expiry into a perfect square k.
FdmBase(s, numSubdivisions) ==
    LET k == Expiry(s) \div numSubdivisions
    IN  [NT |-> numSubdivisions, k |-> k, dtSqrt |-> Sqrt(k),
         x |-> Grid(numSubdivisions, k)]

EulerAdvance(f, s, xn, tn, dt, normalVar) ==
    xn + Drift(s, xn, tn) * dt + Diffusion(s, xn, tn) * f.dtSqrt * normalVar

SchemeKinds == {"Euler", "PredictorCorrector", "FRKI", "Exact"}

\* The scratch fields of a scheme as its constructor leaves them.
NewScheme(kind) ==
    [kind |-> kind, VMid |-> 0, F1 |-> 0, G1 |-> 0, G2 |-> 0, Wincr |-> 0, sqrk |-> 0]

\* 0.5 * a, for the even values a the model's inputs produce.
Half(a) == a \div 2

\* PredictorCorrectorFdm with the builder's a = b = 0.5: the predictor VMid
\* and the value advance() returns.
PredictorCorrectorVMid(f, s, xn, tn, dt, normalVar) ==
    xn + Drift(s, xn, tn) * dt + Diffusion(s, xn, tn) * f.dtSqrt * normalVar

PredictorCorrectorAdvance(f, s, xn, tn, dt, normalVar) ==
    LET VMid == PredictorCorrectorVMid(f, s, xn, tn, dt, normalVar)
        driftTerm == (Half(Drift(s, VMid, tn + dt)) + Half(Drift(s, xn, tn))) * dt
        diffusionTerm == (Half(Diffusion(s, VMid, tn + dt)) + Half(Diffusion(s, xn, tn)))
                             * f.dtSqrt * normalVar
    IN  xn + driftTerm + diffusionTerm

\* FRKI::advance, for dt a perfect square: the fields it writes and the value
\* it returns.
FRKIScratch(c, f, s, xn, tn, dt, normalVar) ==
    LET sqrk == Sqrt(dt)
        Wincr == sqrk * normalVar
        G1 == Diffusion(s, xn, tn)
    IN  [c EXCEPT !.sqrk = sqrk, !.Wincr = Wincr, !.F1 = Drift(s, xn, tn), !.G1 = G1,
                  !.G2 = Diffusion(s, xn + Half(G1 * (Wincr - sqrk)), tn)]

FRKIAdvance(c, f, s, xn, tn, dt, normalVar) ==
    LET w == FRKIScratch(c, f, s, xn, tn, dt, normalVar)
    IN  xn + (w.F1 * f.k + w.G2 * w.Wincr + (w.G2 - w.G1) * w.sqrk)

\* The constructor of ExactFdm: the fields it stores.
ExactFdm(S0, vol, drift) == [kind |-> "Exact", S0 |-> S0, sig |-> vol, mu |-> drift]

\* ExactFdm::advance, for tn + dt a perfect square.  The value it returns is
\* S0 * exp(e), kept as the pair of S0 and the exact argument e of std::exp.
ExactAdvance(c, xn, tn, dt, normalVar) ==
    LET alpha == Frac(c.sig * c.sig, 2)
    IN  [S0 |-> c.S0,
         e |-> RAdd(RMul(RSub(RInt(c.mu), alpha), RInt(tn + dt)),
                    RInt(c.sig * Sqrt(tn + dt) * normalVar))]

\* advance() of the scheme c: the value returned and the scheme afterwards.
Advance(c, f, s, xn, tn, dt, normalVar) ==
    CASE c.kind = "Euler" ->
            [r |-> EulerAdvance(f, s, xn, tn, dt, normalVar), sch |-> c]
      [] c.kind = "PredictorCorrector" ->
            [r |-> PredictorCorrectorAdvance(f, s, xn, tn, dt, normalVar),
             sch |-> [c EXCEPT !.VMid = PredictorCorrectorVMid(f, s, xn, tn, dt, normalVar)]]
      [] c.kind = "FRKI" ->
            [r |-> FRKIAdvance(c, f, s, xn, tn, dt, normalVar),
             sch |-> FRKIScratch(c, f, s, xn, tn, dt, normalVar)]
      [] c.kind = "Exact" ->
            [r |-> ExactAdvance(c, xn, tn, dt, normalVar), sch |-> c]

(***************************************************************************)
(* OptionData.hpp: the payoff and the discounter handed to the pricers.    *)
(***************************************************************************)
\* The fields of OptionData; disc stands for the value exp(-r T) its
\* discounter returns.
OptionData(K, T, r, sig, D, type, disc) ==
    [K |-> K, T |-> T, r |-> r, sig |-> sig, D |-> D, type |-> type, disc |-> disc]

Payoff(o, S) ==
    IF o.type = 1 THEN RMax(RSub(S, RInt(o.K)), RInt(0))
    ELSE RMax(RSub(RInt(o.K), S), RInt(0))

Discounter(o) == o.disc

(***************************************************************************)
(* Pricers.hpp.                                                            *)
(***************************************************************************)
NewPricer == [sum |-> RInt(0), NSim |-> 0, price |-> RInt(0)]

NewBridge == [counter |-> 0, pos |-> 0]

DiscountFactor(o) == Discounter(o)

EuropeanRunningPrice(p, o, path) ==
    LET s == RAdd(p.sum, Payoff(o, Back(path)))
    IN  [sum |-> s, NSim |-> p.NSim + 1,
         price |-> RDivInt(RMul(DiscountFactor(o), s), p.NSim + 1)]

EuropeanLastPath(p, o, path) ==
    [p EXCEPT !.sum = Payoff(o, Back(path)), !.NSim = @ + 1]

\* sum += m_payoff(path.back()); ++NSim;
EuropeanProcessPath(p, o, path) ==
    [p EXCEPT !.sum = RAdd(@, Payoff(o, Back(path))), !.NSim = @ + 1]

AverageOverSteps(path) ==
    CHOOSE q \in {RDivInt(avg, Len(path) - 1) : avg \in {Accumulate(path, Len(path))}} : TRUE

\* avg / path.size()
Average(path) ==
    CHOOSE q \in {RDivInt(avg, Len(path)) : avg \in {Accumulate(path, Len(path))}} : TRUE

\* The mean is computed once into a local and then passed to the payoff.
AsianProcessPath(p, o, path) ==
    CHOOSE q \in {[p EXCEPT !.sum = RAdd(@, Payoff(o, avg)), !.NSim = @ + 1] :
                      avg \in {Average(path)}} : TRUE

KnockedOutAfterSeed(path) == \E j \in 2..Len(path) : RGe(path[j], RInt(BarrierL))

KnockedOutDown(path) == \E j \in 1..Len(path) : RLe(path[j], RInt(BarrierL))

\* for (const auto& price : path) if (price >= L) knockedOut = true;
KnockedOut(path) == \E j \in 1..Len(path) : RGe(path[j], RInt(BarrierL))

BarrierFrontPath(p, o, path) ==
    [p EXCEPT !.sum = RAdd(@, IF ~KnockedOut(path)
                              THEN Payoff(o, path[1])
                              ELSE RInt(Rebate)),
              !.NSim = @ + 1]

BarrierProcessPath(p, o, path) ==
    [p EXCEPT !.sum = RAdd(@, IF ~KnockedOut(path)
                              THEN Payoff(o, Back(path))
                              ELSE RInt(Rebate)),
              !.NSim = @ + 1]

\* std::exp(e) >= u for the draw d (0: u = 0.0; d >= 1: u = exp(-d / 8)).
ExpGe(e, d) ==
    IF IsNaN(e) THEN FALSE
    ELSE IF e.den = 0 THEN (e.num > 0 \/ d = 0)
    ELSE d = 0 \/ RGe(e, Frac(-d, 8))

BridgeExponentFlipped(a, b, tmp, dt) ==
    Frac(2 * (BarrierL - a) * (BarrierL - b), tmp * tmp * dt)

\* The argument of std::exp in P, for path[n-1] = a and path[n] = b.
BridgeExponent(a, b, tmp, dt) ==
    Frac(-2 * (BarrierL - a) * (BarrierL - b), tmp * tmp * dt)

\* The loop over n (0-based, from 1) of BrownianBridgePricer::ProcessPath:
\* whether it crossed, the uniforms it drew, and the field counter.
BridgeCrossedSampleOnly(b, hit) == b >= BarrierL

\* if (path[n] >= L || P >= u), for path[n] = b and hit standing for P >= u.
BridgeCrossed(b, hit) == b >= BarrierL \/ hit

RECURSIVE BridgeScan(_, _, _, _, _, _)
BridgeScan(s, dt, path, m, draws, counter) ==
    IF ~(m < Len(path)) THEN [crossed |-> FALSE, used |-> m - 1, counter |-> counter]
    ELSE LET tmp == Diffusion(s, path[m], (m - 1) * dt)
             hit == ExpGe(BridgeExponent(path[m], path[m + 1], tmp, dt), draws[m])
             c   == IF hit THEN counter + 1 ELSE counter
         IN  IF BridgeCrossed(path[m + 1], hit)
             THEN [crossed |-> TRUE, used |-> m, counter |-> c]
             ELSE BridgeScan(s, dt, path, m + 1, draws, c)

BridgeProcessPath(p, o, path, scan) ==
    [p EXCEPT !.sum = RAdd(@, IF scan.crossed THEN RInt(Rebate)
                              ELSE Payoff(o, Back(path))),
              !.NSim = @ + 1]

PostProcessInPlace(p, o) ==
    LET s == RDivInt(p.sum, p.NSim)
    IN  [p EXCEPT !.sum = s, !.price = RMul(DiscountFactor(o), s)]

PostProcessReset(p, o) ==
    [sum |-> RInt(0), NSim |-> 0,
     price |-> RDivInt(RMul(DiscountFactor(o), p.sum), p.NSim)]

PostProcessGuarded(p, o) ==
    [p EXCEPT !.price = IF p.NSim = 0 THEN RInt(0)
                        ELSE RDivInt(RMul(DiscountFactor(o), p.sum), p.NSim)]

\* price = DiscountFactor() * sum / NSim, the same in all four pricers.
PostProcess(p, o) ==
    [p EXCEPT !.price = RDivInt(RMul(DiscountFactor(o), p.sum), p.NSim)]

\* ProcessPath of the pricer of a kind; scan is the bridge pricer's loop.
ProcessPath(kind, p, o, path, scan) ==
    CASE kind = "European" -> EuropeanProcessPath(p, o, path)
      [] kind = "Asian"    -> AsianProcessPath(p, o, path)
      [] kind = "Barrier"  -> BarrierProcessPath(p, o, path)
      [] kind = "Bridge"   -> BridgeProcessPath(p, o, path, scan)

(***************************************************************************)
(* MCBuilder.hpp, TestMonteCarlo.hpp: what Main builds before it calls     *)
(* start().                                                                *)
(***************************************************************************)
\* The step counts N of the scheme.
StepCounts == {1, 2}

\* Expiries T for which k = T / NT and sqrt(k) are exact.
ExpiryChoices(NT) == {T \in {0, 1, 2} : T % NT = 0 /\ IsSquare(T \div NT)}

\* GetRng(): Parts() makes a new generator, at the start of its stream.
PartsRngKept(prev) == prev

PartsRng(prev) == [pos |-> 0]

NewResShort(NT) == [j \in 1..NT |-> 0]

\* res.resize(fdm->NT + 1)
NewRes(NT) == [j \in 1..(NT + 1) |-> 0]

NoEvents == <<>>

NoCall == [op |-> "none", again |-> FALSE, knocked |-> FALSE, only0 |-> FALSE,
           crossed |-> FALSE, bridged |-> FALSE]

NoAdvance ==
    LET none == [made |-> FALSE, xn |-> 0, tn |-> 0, dt |-> 0, z |-> 0, r |-> 0]
    IN  [last |-> none, prev |-> none]

\* GetOptionData(source): the tuple (r, div, sig, T, K, IC, NSim).
GetOptionData(source, S_0, M) ==
    <<source.r, source.D, source.sig, source.T, source.K, S_0, M>>

\* The constructor of MCBuilder: the fields it reads from the tuple.
MCBuilder(optionData) ==
    [r |-> optionData[1], d |-> optionData[2], v |-> optionData[3],
     T |-> optionData[4], K |-> optionData[5], IC |-> optionData[6]]

\* The constructor of MCDefaultBuilder: the fields it reads from the tuple.
MCDefaultBuilder(optionData) ==
    [r |-> optionData[1], v |-> optionData[2], d |-> optionData[3],
     T |-> optionData[4], K |-> optionData[5], IC |-> optionData[6],
     beta |-> optionData[7]]

\* GetSde() of either builder, with the GBM choice in MCBuilder.
GetSde(b) == GBM(b.r, b.v, b.d, b.IC, b.T)

\* SelectBuilder: choice 1 is MCBuilder, any other choice MCDefaultBuilder.
BuilderChoices == {1, 2}

SelectBuilder(choice, optionData) ==
    IF choice = 1 THEN MCBuilder(optionData) ELSE MCDefaultBuilder(optionData)

\* MCBuilder::GetFdm: the scheme object of the class chosen, the Exact scheme
\* made as ExactFdm(sde, NT, IC, v, r).
GetFdm(kind, b) ==
    IF kind = "Exact" THEN ExactFdm(b.IC, b.v, b.r) ELSE NewScheme(kind)

\* No run over doubles, no accumulator comparison, no generator call under way.
Idle == dbl = <<>> /\ acc = <<>> /\ gen = <<>>

Built(source, S_0, NT, M, w, choice) ==
    /\ sde = GetSde(SelectBuilder(choice, GetOptionData(source, S_0, M)))
    /\ fdm = FdmBase(sde, NT)
    /\ opt = source
    /\ NSim = M
    /\ wired = w
    /\ pr = [k \in Kinds |-> NewPricer]
    /\ brg = NewBridge
    /\ i = 0
    /\ n = 0
    /\ VOld = 0
    /\ res = NewRes(NT)
    /\ rng = PartsRng([pos |-> 0])
    /\ zs = <<>>
    /\ us = <<>>
    /\ events = NoEvents
    /\ computed = 0
    /\ phase = 1
    /\ first = [events |-> NoEvents, price |-> RInt(0), wired |-> w]
    /\ fin = [k \in Kinds |-> FALSE]
    /\ dirty = [k \in Kinds |-> FALSE]
    /\ lastCall = NoCall
    /\ adv = NoAdvance
    /\ reached = FALSE

\* A run long enough to pass the second progress notification.
LongRun == MisPeriod + 1

\* The variates followed: every one in the short runs, one in the long run.
VariatesOf(M) == IF M > MaxM THEN {1} ELSE Variates

\* Main: any option data, any path count M >= 0, any expiry T >= 0, either
\* builder; the builder makes an EulerFdm.  The long run is followed for one
\* model.
Init ==
    /\ pc = "for_i"
    /\ sch = NewScheme("Euler")
    /\ Idle
    /\ \/ \E S_0 \in InitialConditions, r \in Drifts, sig \in Vols, D \in Dividends,
             NT \in StepCounts, M \in 0..MaxM, type \in OptionTypes,
             disc \in Discounts, w \in Kinds, choice \in BuilderChoices :
             \E T \in ExpiryChoices(NT) :
                 Built(OptionData(StrikeK, T, r, sig, D, type, disc), S_0, NT, M, w, choice)
       \/ \E disc \in Discounts, w \in Kinds \ {"Bridge"} :
             Built(OptionData(StrikeK, 1, 0, 1, 0, 1, disc), 100, 1, LongRun, w, 1)

(***************************************************************************)
(* MCMediator::start().                                                    *)
(***************************************************************************)
Event(type, path) == [type |-> type, i |-> i, path |-> path, steps |-> computed]

ForICondLate(ii, M) == ii < M - 1

\* for (int i = 0; i < NSim; ++i)
ForICond(ii, M) == ii < M

ForNCondShort(nn, buf) == nn < Len(buf) - 1

\* for (int n = 1; n < res.size(); n++)
ForNCond(nn, buf) == nn < Len(buf)

MisDueOneBased(ii) == (ii + 1) % MisPeriod = 0

\* if (i % 100 == 0)
MisDue(ii) == ii % MisPeriod = 0

NextVOldKept(old, new) == old

\* VOld = VNew
NextVOld(old, new) == new

\* The variate the generator g delivers next: the stream's, once recorded.
Delivers(g, stream, v) == g.pos + 1 <= Len(stream) => v = stream[g.pos + 1]

Recorded(g, stream, v) == IF g.pos + 1 <= Len(stream) THEN stream ELSE Append(stream, v)

\* The uniforms the bridge pricer's generator delivers from b.pos on.
DeliversAll(b, stream, draws) ==
    \A j \in DOMAIN draws : b.pos + j <= Len(stream) => draws[j] = stream[b.pos + j]

RecordedAll(b, stream, draws, used) ==
    [q \in 1..(IF b.pos + used > Len(stream) THEN b.pos + used ELSE Len(stream)) |->
        IF q <= Len(stream) THEN stream[q] ELSE draws[q - b.pos]]

\* Lines 126-134: the loop test, the progress event, the seeding of res[0].
BeginPath ==
    /\ pc = "for_i"
    /\ ForICond(i, NSim)
    /\ events' = IF MisDue(i) THEN Append(events, Event("mis", <<>>)) ELSE events
    /\ VOld' = InitialCondition(sde)
    /\ res' = [res EXCEPT ![1] = InitialCondition(sde)]
    /\ n' = 1
    /\ computed' = 0
    /\ pc' = "for_n"
    /\ UNCHANGED <<sde, fdm, opt, NSim, wired, pr, brg, i, rng, zs, us, phase, first,
                   fin, dirty, lastCall>>
    /\ UNCHANGED <<sch, adv, reached>>
    /\ UNCHANGED <<dbl, acc, gen>>

\* Lines 135-141: one step of the path.
Step ==
    /\ pc = "for_n"
    /\ ForNCond(n, res)
    /\ \E z \in VariatesOf(NSim) :
          /\ Delivers(rng, zs, z)
          /\ zs' = Recorded(rng, zs, z)
          /\ LET VNew == EulerAdvance(fdm, sde, VOld, fdm.x[n], fdm.k, z)
             IN  /\ res' = [res EXCEPT ![n + 1] = VNew]
                 /\ VOld' = NextVOld(VOld, VNew)
    /\ rng' = [rng EXCEPT !.pos = @ + 1]
    /\ n' = n + 1
    /\ computed' = computed + 1
    /\ UNCHANGED <<sde, fdm, opt, NSim, wired, pr, brg, pc, i, us, events, phase,
                   first, fin, dirty, lastCall>>
    /\ UNCHANGED <<sch, adv, reached>>
    /\ UNCHANGED <<dbl, acc, gen>>

\* Some entry of the path, entry 0 included, is at or above the level L.
Reaches(path) == \E j \in DOMAIN path : ~(path[j] < BarrierL)

\* P_n >= u_n for some pair (path[n-1], path[n]), n in 1..N, of the path.
Bridged(s, dt, path, draws) ==
    \E m \in 1..(Len(path) - 1) :
        ExpGe(BridgeExponent(path[m], path[m + 1], Diffusion(s, path[m], (m - 1) * dt), dt),
              draws[m])

SharedGenerator(g, used) == [g EXCEPT !.pos = @ + used]

\* The orchestrator's generator after a ProcessPath() that drew `used`
\* uniforms: u = dist(rng) draws from the pricer's own member rng.
PathGeneratorAfter(g, used) == g

\* Line 142: path(res), delivered to f1, that is ProcessPath of the pricer.
Dispatch ==
    /\ pc = "for_n"
    /\ ~ForNCond(n, res)
    /\ events' = Append(events, Event("path", res))
    /\ \E draws \in [1..(Len(res) - 1) -> Uniforms] :
          LET scan == BridgeScan(sde, fdm.k, res, 1, draws, brg.counter)
          IN  /\ pr' = [pr EXCEPT ![wired] = ProcessPath(wired, @, opt, Doubles(res), scan)]
              /\ rng' = PathGeneratorAfter(rng, IF wired = "Bridge" THEN scan.used ELSE 0)
              /\ IF wired = "Bridge"
                 THEN /\ DeliversAll(brg, us, draws)
                      /\ us' = RecordedAll(brg, us, draws, scan.used)
                      /\ brg' = [counter |-> scan.counter, pos |-> brg.pos + scan.used]
                 ELSE /\ draws = [j \in 1..(Len(res) - 1) |-> 0]
                      /\ UNCHANGED <<us, brg>>
    /\ dirty' = [dirty EXCEPT ![wired] = TRUE]
    /\ i' = i + 1
    /\ pc' = "for_i"
    /\ UNCHANGED <<sde, fdm, opt, NSim, wired, n, VOld, res, zs, computed, phase,
                   first, fin, lastCall>>
    /\ reached' = (reached \/ Reaches(res))
    /\ UNCHANGED <<sch, adv>>
    /\ UNCHANGED <<dbl, acc, gen>>

FinishSilent ==
    /\ pc = "for_i"
    /\ ~ForICond(i, NSim)
    /\ pc' = "done"
    /\ UNCHANGED <<sde, fdm, opt, NSim, wired, pr, brg, i, n, VOld, res, rng, zs, us,
                   events, computed, phase, first, fin, dirty, lastCall>>
    /\ UNCHANGED <<sch, adv, reached, dbl, acc, gen>>

\* Line 145: finish(), delivered to f2, that is PostProcess of the pricer.
Finish ==
    /\ pc = "for_i"
    /\ ~ForICond(i, NSim)
    /\ events' = Append(events, Event("finish", <<>>))
    /\ pr' = [pr EXCEPT ![wired] = PostProcess(@, opt)]
    /\ fin' = [fin EXCEPT ![wired] = TRUE]
    /\ dirty' = [dirty EXCEPT ![wired] = FALSE]
    /\ pc' = "done"
    /\ UNCHANGED <<sde, fdm, opt, NSim, wired, brg, i, n, VOld, res, rng, zs, us,
                   computed, phase, first, lastCall>>
    /\ UNCHANGED <<sch, adv, reached>>
    /\ UNCHANGED <<dbl, acc, gen>>

Next == BeginPath \/ Step \/ Dispatch \/ Finish

Spec == Init /\ [][Next]_vars

\* start() runs on one thread that is never suspended for ever, and every
\* call it makes returns, rng->GenerateRn() included: each statement that
\* can be executed is executed.
SpecLive ==
    /\ Init
    /\ [][Next]_vars
    /\ WF_vars(BeginPath)
    /\ WF_vars(Step)
    /\ WF_vars(Dispatch)
    /\ WF_vars(Finish)

(***************************************************************************)
(* A second run of Main in the same process, over the same streams: the    *)
(* builder makes new parts and a new pricer, the generators deliver again  *)
(* what they delivered to the first run.                                   *)
(***************************************************************************)
RerunAs(w) ==
    /\ pc = "done"
    /\ phase = 1
    /\ first' = [events |-> events, price |-> pr[wired].price, wired |-> wired]
    /\ wired' = w
    /\ phase' = 2
    /\ pr' = [k \in Kinds |-> NewPricer]
    /\ brg' = NewBridge
    /\ fin' = [k \in Kinds |-> FALSE]
    /\ dirty' = [k \in Kinds |-> FALSE]
    /\ rng' = PartsRng(rng)
    /\ res' = NewRes(fdm.NT)
    /\ events' = NoEvents
    /\ i' = 0
    /\ n' = 0
    /\ VOld' = 0
    /\ computed' = 0
    /\ pc' = "for_i"
    /\ UNCHANGED <<sde, fdm, opt, NSim, zs, us, lastCall>>
    /\ reached' = FALSE
    /\ UNCHANGED <<sch, adv>>
    /\ UNCHANGED <<dbl, acc, gen>>

\* The second run with the same pricer subscribed.
Rerun == RerunAs(wired)

NextRepro == Next \/ Rerun

SpecRepro == Init /\ [][NextRepro]_vars

\* The second run with another pricer subscribed: any of the others in place
\* of the bridge pricer, or the bridge pricer in place of the pricer the
\* builders wire.  The short runs are followed.
RerunOther ==
    /\ NSim <= MaxM
    /\ \E w \in Kinds \ {wired} :
          /\ wired = "Bridge" \/ (wired = "European" /\ w = "Bridge")
          /\ RerunAs(w)

NextSwap == Next \/ RerunOther

SpecSwap == Init /\ [][NextSwap]_vars

(***************************************************************************)
(* The pricers called from outside a run: one pricer of each kind, all     *)
(* given the same payoff, discounter, model and step, and fed the same     *)
(* paths.  The paths have NT + 1 >= 2 entries; the model has vol > 0 and   *)
(* the step is k > 0.                                                      *)
(***************************************************************************)
PathValues == {0, 100, 200}

PathsOf(NT) == [1..(NT + 1) -> PathValues]

\* Entry 0 is at or above the barrier and no later entry is.
OnlyEntry0(path) ==
    path[1] >= BarrierL /\ \A j \in 2..Len(path) : path[j] < BarrierL

InitPricers ==
    /\ pc = "api"
    /\ sch = NewScheme("Euler")
    /\ Idle
    /\ \E vol \in Vols, NT \in StepCounts, type \in OptionTypes, disc \in Discounts :
          Built(OptionData(StrikeK, NT, 0, vol, 0, type, disc), 100, NT, 0, "European", 1)

CallProcessPath ==
    /\ pc = "api"
    /\ pr["European"].NSim < MaxFeed
    /\ \E path \in PathsOf(fdm.NT), draws \in [1..fdm.NT -> Uniforms] :
          LET scan == BridgeScan(sde, fdm.k, path, 1, draws, brg.counter)
          IN  /\ pr' = [k \in Kinds |-> ProcessPath(k, pr[k], opt, Doubles(path), scan)]
              /\ brg' = [counter |-> scan.counter, pos |-> brg.pos + scan.used]
              /\ lastCall' = [op |-> "ProcessPath", again |-> FALSE,
                              knocked |-> KnockedOut(Doubles(path)),
                              only0 |-> OnlyEntry0(path),
                              crossed |-> scan.crossed,
                              bridged |-> Bridged(sde, fdm.k, path, draws)]
              /\ reached' = (reached \/ Reaches(path))
    /\ dirty' = [k \in Kinds |-> TRUE]
    /\ UNCHANGED <<sde, fdm, opt, NSim, wired, pc, i, n, VOld, res, rng, zs, us,
                   events, computed, phase, first, fin>>
    /\ UNCHANGED <<sch, adv>>
    /\ UNCHANGED <<dbl, acc, gen>>

CallPostProcess ==
    /\ pc = "api"
    /\ pr' = [k \in Kinds |-> PostProcess(pr[k], opt)]
    /\ fin' = [k \in Kinds |-> TRUE]
    /\ dirty' = [k \in Kinds |-> FALSE]
    /\ lastCall' = [NoCall EXCEPT !.op = "PostProcess",
                                  !.again = \A k \in Kinds : fin[k] /\ ~dirty[k]]
    /\ UNCHANGED <<sde, fdm, opt, NSim, wired, brg, pc, i, n, VOld, res, rng, zs, us,
                   events, computed, phase, first>>
    /\ UNCHANGED <<sch, adv, reached>>
    /\ UNCHANGED <<dbl, acc, gen>>

\* DiscountFactor() const and Price() const: they return, and change nothing.
CallDiscountFactor ==
    /\ pc = "api"
    /\ lastCall' = [NoCall EXCEPT !.op = "DiscountFactor"]
    /\ UNCHANGED <<sde, fdm, opt, NSim, wired, pr, brg, pc, i, n, VOld, res, rng, zs,
                   us, events, computed, phase, first, fin, dirty>>
    /\ UNCHANGED <<sch, adv, reached>>
    /\ UNCHANGED <<dbl, acc, gen>>

CallPrice ==
    /\ pc = "api"
    /\ lastCall' = [NoCall EXCEPT !.op = "Price"]
    /\ UNCHANGED <<sde, fdm, opt, NSim, wired, pr, brg, pc, i, n, VOld, res, rng, zs,
                   us, events, computed, phase, first, fin, dirty>>
    /\ UNCHANGED <<sch, adv, reached>>
    /\ UNCHANGED <<dbl, acc, gen>>

NextPricers == CallProcessPath \/ CallPostProcess \/ CallDiscountFactor \/ CallPrice

SpecPricers == InitPricers /\ [][NextPricers]_vars

(***************************************************************************)
(* The model and the scheme called from outside a run: the model's public  *)
(* setters, the construction of another scheme of the same class over the  *)
(* model, and advance() with any arguments.  adv keeps the last two        *)
(* advance() calls made since the model was last written.                  *)
(***************************************************************************)
\* Expiries and step counts with k = T / NT and sqrt(k) exact, and the steps
\* dt handed to advance().
PartsExpiries == {1, 4}

PartsStepCounts(T) == {NT \in {1, 4} : T % NT = 0 /\ IsSquare(T \div NT)}

PartsSteps == {1, 4}

PartsTimes == {0, 3}

PartsDrifts == {1}

PartsDividends == {0, 1}

InitParts ==
    /\ pc = "parts"
    /\ Idle
    /\ \E ic \in InitialConditions, mu \in PartsDrifts, vol \in Vols, div \in PartsDividends,
          T \in PartsExpiries :
          \E NT \in PartsStepCounts(T) :
              Built(OptionData(StrikeK, T, mu, vol, div, 1, RInt(1)), ic, NT, 0,
                    "European", 1)
    /\ \E kind \in SchemeKinds :
          sch = GetFdm(kind, MCBuilder(GetOptionData(opt, InitialCondition(sde), NSim)))

\* sde->InitialCondition(val)
CallInitialCondition ==
    /\ pc = "parts"
    /\ \E val \in InitialConditions : sde' = InitialConditionSet(sde, val)
    /\ adv' = NoAdvance
    /\ UNCHANGED <<fdm, opt, NSim, wired, pr, brg, pc, i, n, VOld, res, rng, zs, us,
                   events, computed, phase, first, fin, dirty, lastCall, sch, reached>>
    /\ UNCHANGED <<dbl, acc, gen>>

\* sde->Expiry(val)
CallExpiry ==
    /\ pc = "parts"
    /\ \E val \in PartsExpiries : sde' = ExpirySet(sde, val)
    /\ adv' = NoAdvance
    /\ UNCHANGED <<fdm, opt, NSim, wired, pr, brg, pc, i, n, VOld, res, rng, zs, us,
                   events, computed, phase, first, fin, dirty, lastCall, sch, reached>>
    /\ UNCHANGED <<dbl, acc, gen>>

\* Another scheme of the same class made over the model, as the builders
\* make one: std::make_shared<EulerFdm>(sde, NT); the Exact scheme is given
\* the builder's IC, v and r again.
NewFdm ==
    /\ pc = "parts"
    /\ \E NT \in PartsStepCounts(Expiry(sde)) : fdm' = FdmBase(sde, NT)
    /\ sch' = IF sch.kind = "Exact" THEN ExactFdm(sch.S0, sch.sig, sch.mu)
              ELSE NewScheme(sch.kind)
    /\ UNCHANGED <<sde, opt, NSim, wired, pr, brg, pc, i, n, VOld, res, rng, zs, us,
                   events, computed, phase, first, fin, dirty, lastCall, adv, reached>>
    /\ UNCHANGED <<dbl, acc, gen>>

\* fdm->advance(xn, tn, dt, normalVar)
CallAdvance ==
    /\ pc = "parts"
    /\ \E xn \in InitialConditions, tn \in PartsTimes, dt \in PartsSteps, z \in Variates :
          LET a == Advance(sch, fdm, sde, xn, tn, dt, z)
          IN  /\ sch.kind = "Exact" => IsSquare(tn + dt)
              /\ sch' = a.sch
              /\ adv' = [last |-> [made |-> TRUE, xn |-> xn, tn |-> tn, dt |-> dt,
                                   z |-> z, r |-> a.r],
                         prev |-> adv.last]
    /\ UNCHANGED <<sde, fdm, opt, NSim, wired, pr, brg, pc, i, n, VOld, res, rng, zs, us,
                   events, computed, phase, first, fin, dirty, lastCall, reached>>
    /\ UNCHANGED <<dbl, acc, gen>>

NextParts == CallInitialCondition \/ CallExpiry \/ NewFdm \/ CallAdvance

SpecParts == InitParts /\ [][NextParts]_vars

(***************************************************************************)
(* Rng.hpp: GenerateRn() of BoxMullerNet and of PolarMarsagliaNet, one     *)
(* iteration of the rejection loop at a time.  gen.at is "idle" outside a  *)
(* call, "loop" at the head of the do-while body, "out" once the loop has  *)
(* been left and before the return statement is evaluated.                 *)
(***************************************************************************)
GeneratorKinds == {"BoxMuller", "PolarMarsaglia"}

\* The values dist(rng) returns, in [0, 1).
UnitUniforms == {Frac(j, 4) : j \in 0..3}

\* The constructor: U1(0.0), U2(0.0); u, v and S are locals of GenerateRn().
NewGenerator(kind) ==
    [kind |-> kind, at |-> "idle", U1 |-> RInt(0), U2 |-> RInt(0), u |-> RInt(0),
     v |-> RInt(0), S |-> RInt(0), logOf |-> RInt(1), dividedBy |-> RInt(1),
     calls |-> 0]

BoxMullerRetryStrict(U1) == RLt(U1, RInt(0))

\* while (U1 <= 0.0)
BoxMullerRetry(U1) == RLe(U1, RInt(0))

\* while (S > 1.0 || S <= 0.0)
PolarMarsagliaRetry(S) == RGt(S, RInt(1)) \/ RLe(S, RInt(0))

\* u = 2.0 * dist(rng) - 1.0
PolarMarsagliaCoordinate(d) == RSub(RMul(RInt(2), d), RInt(1))

InitRng ==
    /\ pc = "rng"
    /\ sch = NewScheme("Euler")
    /\ dbl = <<>>
    /\ acc = <<>>
    /\ \E kind \in GeneratorKinds : gen = NewGenerator(kind)
    /\ Built(OptionData(StrikeK, 1, 0, 1, 0, 1, RInt(1)), 100, 1, 0, "European", 1)

\* rng->GenerateRn() is called.
EnterGenerateRn ==
    /\ pc = "rng"
    /\ gen.at = "idle"
    /\ gen.calls < MaxM
    /\ gen' = [gen EXCEPT !.at = "loop"]
    /\ UNCHANGED <<sde, fdm, opt, NSim, wired, pr, brg, pc, i, n, VOld, res, rng, zs,
                   us, events, computed, phase, first, fin, dirty, lastCall, sch, adv,
                   reached, dbl, acc>>

\* One pass through the do-while body and its test.
RejectionLoop ==
    /\ pc = "rng"
    /\ gen.at = "loop"
    /\ \E d1 \in UnitUniforms, d2 \in UnitUniforms :
          IF gen.kind = "BoxMuller"
          THEN gen' = [gen EXCEPT !.U1 = d1, !.U2 = d2,
                                  !.at = IF BoxMullerRetry(d1) THEN "loop" ELSE "out"]
          ELSE LET u == PolarMarsagliaCoordinate(d1)
                   v == PolarMarsagliaCoordinate(d2)
                   S == RAdd(RMul(u, u), RMul(v, v))
               IN  gen' = [gen EXCEPT !.u = u, !.v = v, !.S = S,
                                      !.at = IF PolarMarsagliaRetry(S) THEN "loop"
                                             ELSE "out"]
    /\ UNCHANGED <<sde, fdm, opt, NSim, wired, pr, brg, pc, i, n, VOld, res, rng, zs,
                   us, events, computed, phase, first, fin, dirty, lastCall, sch, adv,
                   reached, dbl, acc>>

\* The return statement: std::log(U1), or std::log(S) / S, is evaluated.
ReturnVariate ==
    /\ pc = "rng"
    /\ gen.at = "out"
    /\ gen' = [gen EXCEPT !.at = "idle", !.calls = @ + 1,
                           !.logOf = IF gen.kind = "BoxMuller" THEN gen.U1 ELSE gen.S,
                           !.dividedBy = IF gen.kind = "BoxMuller" THEN RInt(1) ELSE gen.S]
    /\ UNCHANGED <<sde, fdm, opt, NSim, wired, pr, brg, pc, i, n, VOld, res, rng, zs,
                   us, events, computed, phase, first, fin, dirty, lastCall, sch, adv,
                   reached, dbl, acc>>

NextRng == EnterGenerateRn \/ RejectionLoop \/ ReturnVariate

SpecRng == InitRng /\ [][NextRng]_vars

(***************************************************************************)
(* start() with the state values as IEEE doubles: the quiet NaN and the    *)
(* two infinities included.  std::sqrt is NaN below zero; std::exp is      *)
(* +inf from ExpOverflow on and 0.0 from -ExpUnderflow down.  dbl keeps    *)
(* the parts Main built, the locals of start(), the pricer wired and the   *)
(* paths dispatched.                                                       *)
(***************************************************************************)
NaN == Frac(0, 0)

PosInf == Frac(1, 0)

NegInf == Frac(-1, 0)

ExpOverflow == 710

ExpUnderflow == 746

IsSquareDouble(a) == IsFinite(a) /\ a.num >= 0 /\ IsSquare(a.num) /\ IsSquare(a.den)

\* std::sqrt(a), for a below zero, not finite, or a perfect square.
SqrtDouble(a) ==
    IF IsNaN(a) \/ a.num < 0 THEN NaN
    ELSE IF a.den = 0 THEN a
    ELSE Frac(Sqrt(a.num), Sqrt(a.den))

\* The arguments e for which std::exp(e) is a value kept exactly.
ExpComputable(e) ==
    \/ ~IsFinite(e)
    \/ e.num = 0
    \/ RGe(e, RInt(ExpOverflow))
    \/ RLe(e, RInt(-ExpUnderflow))

\* std::exp(e), for such an e.
ExpDouble(e) ==
    IF IsNaN(e) THEN NaN
    ELSE IF e.den = 0 THEN (IF e.num > 0 THEN PosInf ELSE RInt(0))
    ELSE IF e.num = 0 THEN RInt(1)
    ELSE IF e.num > 0 THEN PosInf
    ELSE RInt(0)

\* OptionData::discount: std::exp(-r * T)
DiscountDouble(r, T) == ExpDouble(RMul(RInt(-r), T))

RECURSIVE GridDoubles(_, _)
GridDoubles(m, k) ==
    IF m = 0 THEN <<RInt(0)>>
    ELSE Append(GridDoubles(m - 1, k), RAdd(GridDoubles(m - 1, k)[m], k))

\* The constructor of FdmBase, for an expiry of any sign, finite or not.
FdmBaseDoubles(s, numSubdivisions) ==
    LET k == RDivInt(Expiry(s), numSubdivisions)
    IN  [NT |-> numSubdivisions, k |-> k, dtSqrt |-> SqrtDouble(k),
         x |-> GridDoubles(numSubdivisions, k)]

DriftDoubles(s, x, t) == RMul(RInt(s.mu - s.div), x)

DiffusionDoubles(s, x, t) == RMul(RInt(s.vol), x)

\* EulerFdm::advance
EulerAdvanceDoubles(f, s, xn, tn, dt, normalVar) ==
    RAdd(RAdd(xn, RMul(DriftDoubles(s, xn, tn), dt)),
         RMul(RMul(DiffusionDoubles(s, xn, tn), f.dtSqrt), RInt(normalVar)))

\* The argument of std::exp in ExactFdm::advance at t = tn + dt; the product
\* sig * std::sqrt(t) * 0.0 is 0.0 whenever std::sqrt(t) is finite.
ExactExponent(c, t, normalVar) ==
    LET alpha == Frac(c.sig * c.sig, 2)
        noise == IF normalVar = 0 /\ IsFinite(t) /\ t.num >= 0
                 THEN RInt(0)
                 ELSE RMul(RMul(RInt(c.sig), SqrtDouble(t)), RInt(normalVar))
    IN  RAdd(RMul(RSub(RInt(c.mu), alpha), t), noise)

\* ExactFdm::advance: xn is not read.
ExactAdvanceDoubles(c, xn, tn, dt, normalVar) ==
    RMul(RInt(c.S0), ExpDouble(ExactExponent(c, RAdd(tn, dt), normalVar)))

\* The calls of advance() whose value is kept exactly.
AdvanceComputable(c, tn, dt, normalVar) ==
    c.kind = "Exact" =>
        LET t == RAdd(tn, dt)
        IN  /\ normalVar = 0 \/ ~IsFinite(t) \/ t.num < 0 \/ IsSquareDouble(t)
            /\ ExpComputable(ExactExponent(c, t, normalVar))

AdvanceDoubles(c, f, s, xn, tn, dt, normalVar) ==
    IF c.kind = "Exact"
    THEN ExactAdvanceDoubles(c, xn, tn, dt, normalVar)
    ELSE EulerAdvanceDoubles(f, s, xn, tn, dt, normalVar)

\* The pricers whose ProcessPath draws no random number.
SummingKinds == {"European", "Asian", "Barrier"}

NoScan == [crossed |-> FALSE, used |-> 0, counter |-> 0]

\* The rates and expiries <<r, T>> of the Euler runs: k = T / NT is -1, 1 or
\* +inf, and r * T is 0, NaN or +inf.
EulerCases(NT) == {<<0, RInt(-NT)>>, <<0, RInt(NT)>>, <<0, PosInf>>, <<1, PosInf>>}

\* The expiries of the Exact runs: k = T / NT is -100 or 100.
ExactExpiries(NT) == {RInt(-100 * NT), RInt(100 * NT)}

\* The variates handed to advance(): with the Exact scheme of vol 10 at
\* t = 100 the variate 8 takes the exponent to 800.
VariatesFor(kind) == IF kind = "Exact" THEN {0, 8} ELSE Variates

\* Main with MCBuilder, the scheme of the class chosen, the pricer w.
DoubleRun(source, S_0, NT, M, w, kind) ==
    LET b == MCBuilder(GetOptionData(source, S_0, M))
        s == GetSde(b)
    IN  [sde |-> s, fdm |-> FdmBaseDoubles(s, NT), sch |-> GetFdm(kind, b),
         opt |-> source, NSim |-> M, wired |-> w, pc |-> "for_i", i |-> 0, n |-> 0,
         VOld |-> RInt(0), res |-> Doubles(NewRes(NT)), pr |-> NewPricer,
         paths |-> <<>>, finished |-> FALSE]

\* The Euler runs have vol 1; the Exact runs r = 50 and vol 10, so that
\* mu - 0.5 * sig * sig is 0.
InitDoubles ==
    /\ pc = "doubles"
    /\ sch = NewScheme("Euler")
    /\ acc = <<>>
    /\ gen = <<>>
    /\ Built(OptionData(StrikeK, 1, 0, 1, 0, 1, RInt(1)), 100, 1, 0, "European", 1)
    /\ \E S_0 \in InitialConditions, NT \in StepCounts, M \in 0..MaxM,
          type \in OptionTypes, w \in SummingKinds :
          \/ \E c \in EulerCases(NT) :
                dbl = DoubleRun(OptionData(StrikeK, c[2], c[1], 1, 0, type,
                                           DiscountDouble(c[1], c[2])),
                                S_0, NT, M, w, "Euler")
          \/ \E T \in ExactExpiries(NT) :
                dbl = DoubleRun(OptionData(StrikeK, T, 50, 10, 0, type, DiscountDouble(50, T)),
                                S_0, NT, M, w, "Exact")

\* Lines 126-134.
BeginPathDoubles ==
    /\ dbl.pc = "for_i"
    /\ ForICond(dbl.i, dbl.NSim)
    /\ dbl' = [dbl EXCEPT !.VOld = RInt(InitialCondition(dbl.sde)),
                          !.res[1] = RInt(InitialCondition(dbl.sde)),
                          !.n = 1,
                          !.pc = "for_n"]
    /\ UNCHANGED <<sde, fdm, opt, NSim, wired, pr, brg, pc, i, n, VOld, res, rng, zs,
                   us, events, computed, phase, first, fin, dirty, lastCall, sch, adv,
                   reached, acc, gen>>

\* Lines 135-141.
StepDoubles ==
    /\ dbl.pc = "for_n"
    /\ ForNCond(dbl.n, dbl.res)
    /\ \E z \in VariatesFor(dbl.sch.kind) :
          /\ AdvanceComputable(dbl.sch, dbl.fdm.x[dbl.n], dbl.fdm.k, z)
          /\ \E VNew \in {AdvanceDoubles(dbl.sch, dbl.fdm, dbl.sde, dbl.VOld,
                                         dbl.fdm.x[dbl.n], dbl.fdm.k, z)} :
                dbl' = [dbl EXCEPT !.res[dbl.n + 1] = VNew,
                                   !.VOld = NextVOld(dbl.VOld, VNew),
                                   !.n = @ + 1]
    /\ UNCHANGED <<sde, fdm, opt, NSim, wired, pr, brg, pc, i, n, VOld, res, rng, zs,
                   us, events, computed, phase, first, fin, dirty, lastCall, sch, adv,
                   reached, acc, gen>>

\* Line 142.
DispatchDoubles ==
    /\ dbl.pc = "for_n"
    /\ ~ForNCond(dbl.n, dbl.res)
    /\ dbl' = [dbl EXCEPT !.pr = ProcessPath(dbl.wired, @, dbl.opt, dbl.res, NoScan),
                          !.paths = Append(@, dbl.res),
                          !.i = @ + 1,
                          !.pc = "for_i"]
    /\ UNCHANGED <<sde, fdm, opt, NSim, wired, pr, brg, pc, i, n, VOld, res, rng, zs,
                   us, events, computed, phase, first, fin, dirty, lastCall, sch, adv,
                   reached, acc, gen>>

\* Line 145.
FinishDoubles ==
    /\ dbl.pc = "for_i"
    /\ ~ForICond(dbl.i, dbl.NSim)
    /\ dbl' = [dbl EXCEPT !.pr = PostProcess(@, dbl.opt),
                          !.finished = TRUE,
                          !.pc = "done"]
    /\ UNCHANGED <<sde, fdm, opt, NSim, wired, pr, brg, pc, i, n, VOld, res, rng, zs,
                   us, events, computed, phase, first, fin, dirty, lastCall, sch, adv,
                   reached, acc, gen>>

NextDoubles == BeginPathDoubles \/ StepDoubles \/ DispatchDoubles \/ FinishDoubles

SpecDoubles == InitDoubles /\ [][NextDoubles]_vars

(***************************************************************************)
(* The three pricers that only add, fed the same paths of doubles from     *)
(* outside a run and finalized.  acc keeps the paths in the order they     *)
(* were fed.  One path has entries of 2^53 + K + 1, where the doubles are  *)
(* 2 apart.                                                                *)
(***************************************************************************)
Huge == Wide(1, StrikeK + 1, 1)

SumPaths ==
    {<<RInt(StrikeK + 1), RInt(StrikeK + 1)>>,
     <<RInt(100), RInt(StrikeK + 2)>>,
     <<Huge, Huge>>}

InitSums ==
    /\ pc = "sums"
    /\ sch = NewScheme("Euler")
    /\ dbl = <<>>
    /\ gen = <<>>
    /\ Built(OptionData(StrikeK, 1, 0, 1, 0, 1, RInt(1)), 100, 1, 0, "European", 1)
    /\ \E type \in OptionTypes, disc \in Discounts :
          acc = [opt |-> OptionData(StrikeK, 1, 0, 1, 0, type, disc),
                 fed |-> <<>>,
                 pr |-> [k \in SummingKinds |-> NewPricer],
                 fin |-> FALSE]

\* pricer->ProcessPath(path) on each of the three.
FeedPath ==
    /\ pc = "sums"
    /\ Len(acc.fed) <= MaxFeed
    /\ \E path \in SumPaths :
          acc' = [acc EXCEPT
                     !.fed = Append(@, path),
                     !.pr = [k \in SummingKinds |->
                                ProcessPath(k, acc.pr[k], acc.opt, path, NoScan)],
                     !.fin = FALSE]
    /\ UNCHANGED <<sde, fdm, opt, NSim, wired, pr, brg, pc, i, n, VOld, res, rng, zs,
                   us, events, computed, phase, first, fin, dirty, lastCall, sch, adv,
                   reached, dbl, gen>>

\* pricer->PostProcess() on each of the three.
Finalize ==
    /\ pc = "sums"
    /\ ~acc.fin
    /\ acc' = [acc EXCEPT !.pr = [k \in SummingKinds |-> PostProcess(acc.pr[k], acc.opt)],
                          !.fin = TRUE]
    /\ UNCHANGED <<sde, fdm, opt, NSim, wired, pr, brg, pc, i, n, VOld, res, rng, zs,
                   us, events, computed, phase, first, fin, dirty, lastCall, sch, adv,
                   reached, dbl, gen>>

NextSums == FeedPath \/ Finalize

SpecSums == InitSums /\ [][NextSums]_vars

(***************************************************************************)
(* The claims.                                                             *)
(***************************************************************************)
PathEvents == SelectSeq(events, LAMBDA e : e.type = "path")

PathEventsBefore(j) == Cardinality({q \in 1..(j - 1) : events[q].type = "path"})

Fresh(k) == fin[k] /\ ~dirty[k]

\* C1: a path-completed event is emitted only after all N steps of its path
\* were computed, and the completion event only after the path-completed
\* events of all M paths, none of which follows it.
C1_EventOrder ==
    \A j \in 1..Len(events) :
        /\ events[j].type = "path" => events[j].steps = fdm.NT
        /\ events[j].type = "finish" =>
              /\ PathEventsBefore(j) = NSim
              /\ \A q \in (j + 1)..Len(events) : events[q].type # "path"

C1_Witness ==
    /\ pc = "done"
    /\ NSim = 2
    /\ fdm.NT = 2
    /\ Len(PathEvents) = 2
    /\ events[Len(events)].type = "finish"

\* C2: the paths are dispatched one after the other in the order 0, 1, ...,
\* M-1, each once; while path i is generated exactly the paths before it
\* were dispatched; the wired pricer processed each dispatched path once,
\* the other pricers none, so its counter is M at the completion event.
C2_SequentialDispatch ==
    /\ \A j \in 1..Len(PathEvents) : PathEvents[j].i = j - 1
    /\ Len(PathEvents) = i
    /\ pr[wired].NSim = Len(PathEvents)
    /\ \A k \in Kinds \ {wired} : pr[k].NSim = 0
    /\ pc = "done" => Len(PathEvents) = NSim /\ pr[wired].NSim = NSim

C2_Witness ==
    /\ pc = "done"
    /\ NSim = 2
    /\ pr[wired].NSim = 2
    /\ PathEvents[2].i = 1

\* C3: every path carried by a path-completed event has N + 1 entries and
\* its entry 0 is the model's initial condition.
C3_PathShape ==
    \A j \in 1..Len(events) :
        events[j].type = "path" =>
            /\ Len(events[j].path) = fdm.NT + 1
            /\ events[j].path[1] = InitialCondition(sde)

C3_Witness ==
    /\ Len(PathEvents) = 2
    /\ PathEvents[1].path[fdm.NT + 1] # InitialCondition(sde)
    /\ PathEvents[2].path[1] = InitialCondition(sde)

\* C4: with a non-positive step count, expiry or path count, no
\* path-completed and no completion event is emitted.
C4_ParameterErrorRejected ==
    (NSim <= 0 \/ fdm.NT <= 0 \/ Expiry(sde) <= 0) =>
        \A j \in 1..Len(events) : events[j].type \notin {"path", "finish"}

\* C5, as claimed: PostProcess() on a pricer that processed no path fails,
\* so no pricer with zero paths is ever finalized.
C5_ZeroPathsNotFinalized ==
    \A k \in Kinds : pr[k].NSim = 0 => ~fin[k]

\* C5, amended: PostProcess() on a pricer that processed no path completes,
\* and the price it stores is 0.0 / 0 = NaN; for each of the four pricers.
C5_ZeroPathsPriceNaN ==
    \A k \in Kinds : (fin[k] /\ pr[k].NSim = 0) => IsNaN(pr[k].price)

C5_Witness ==
    /\ lastCall.op = "PostProcess"
    /\ \A k \in Kinds : fin[k] /\ pr[k].NSim = 0 /\ IsNaN(pr[k].price)

\* C6: PostProcess() called again with no ProcessPath() since the last
\* PostProcess() leaves every pricer's price as it was.
C6_FinalizationIdempotent ==
    [][\A k \in Kinds :
          (Fresh(k) /\ lastCall'.op = "PostProcess") => pr'[k].price = pr[k].price]_vars

C6_Witness ==
    /\ lastCall.op = "PostProcess"
    /\ lastCall.again
    /\ \A k \in Kinds : pr[k].NSim = 2 /\ ~IsNaN(pr[k].price)
    /\ pr["European"].price # RInt(0)

\* C7, as claimed: once PostProcess() has run, no later call changes the
\* price.
C7_PriceImmutable ==
    [][\A k \in Kinds : fin[k] => pr'[k].price = pr[k].price]_vars

\* C7, amended: the price is 0 until the first PostProcess(), and only
\* PostProcess() changes it, after the first only when ProcessPath() was
\* called since; ProcessPath(), DiscountFactor() and Price() never do.
C7_PriceChangedOnlyByPostProcess ==
    /\ [](\A k \in Kinds : ~fin[k] => pr[k].price = RInt(0))
    /\ [][\A k \in Kinds :
             pr'[k].price # pr[k].price =>
                 (lastCall'.op = "PostProcess" /\ (fin[k] => dirty[k]))]_vars

C7_Witness ==
    /\ lastCall.op = "ProcessPath"
    /\ \A k \in Kinds : fin[k] /\ dirty[k]
    /\ pr["European"].NSim = 2
    /\ pr["European"].price # RInt(0)
    /\ ~IsNaN(pr["European"].price)

\* C8: fed the same paths and then finalized, the Barrier pricer's price
\* never exceeds the European pricer's.
C8_BarrierBelowVanilla ==
    (Fresh("Barrier") /\ Fresh("European")) =>
        /\ ~RGt(pr["Barrier"].price, pr["European"].price)
        /\ pr["European"].NSim >= 1 => RGe(pr["European"].price, pr["Barrier"].price)

C8_Witness ==
    /\ Fresh("Barrier")
    /\ Fresh("European")
    /\ pr["Barrier"].NSim = 2
    /\ RLt(RInt(0), pr["Barrier"].price)
    /\ RLt(pr["Barrier"].price, pr["European"].price)

RECURSIVE TerminalPayoffs(_)
TerminalPayoffs(j) ==
    IF j = 0 THEN RInt(0)
    ELSE RAdd(TerminalPayoffs(j - 1), Payoff(opt, RInt(PathEvents[j].path[fdm.NT + 1])))

RECURSIVE EntrySum(_, _)
EntrySum(path, j) == IF j = 0 THEN 0 ELSE EntrySum(path, j - 1) + path[j]

RECURSIVE MeanPayoffs(_)
MeanPayoffs(j) ==
    IF j = 0 THEN RInt(0)
    ELSE RAdd(MeanPayoffs(j - 1),
              Payoff(opt, Frac(EntrySum(PathEvents[j].path, fdm.NT + 1), fdm.NT + 1)))

\* C11: after a run of m >= 1 paths the European pricer's price is
\* DiscountFactor() * (sum of payoff(last entry)) / m and the Asian pricer's
\* is DiscountFactor() * (sum of payoff(mean of the N + 1 entries)) / m.
C11_PriceFormulas ==
    (pc = "done" /\ NSim >= 1) =>
        /\ wired = "European" =>
              pr[wired].price = RDivInt(RMul(DiscountFactor(opt), TerminalPayoffs(NSim)), NSim)
        /\ wired = "Asian" =>
              pr[wired].price = RDivInt(RMul(DiscountFactor(opt), MeanPayoffs(NSim)), NSim)

C11_Witness ==
    /\ pc = "done"
    /\ wired = "Asian"
    /\ NSim = 2
    /\ fdm.NT = 2
    /\ PathEvents[1].path # PathEvents[2].path
    /\ RLt(RInt(0), pr[wired].price)
    /\ pr[wired].price.den = 3

\* What the Barrier pricer is to have recorded for the first j dispatched
\* paths: the rebate for a path with an entry 0..N at or above L, else the
\* payoff of the last entry.
RECURSIVE BarrierRecords(_)
BarrierRecords(j) ==
    IF j = 0 THEN RInt(0)
    ELSE LET path == PathEvents[j].path
         IN  RAdd(BarrierRecords(j - 1),
                  IF \E q \in 1..(fdm.NT + 1) : path[q] >= BarrierL
                  THEN RInt(Rebate)
                  ELSE Payoff(opt, RInt(path[fdm.NT + 1])))

\* C12: for every path the Barrier pricer adds the rebate when an entry
\* 0..N is at or above L and payoff(last entry) otherwise, and counts the
\* path in both cases.
C12_BarrierRecords ==
    wired = "Barrier" =>
        /\ pr[wired].sum = BarrierRecords(Len(PathEvents))
        /\ pr[wired].NSim = Len(PathEvents)

C12_Witness ==
    /\ wired = "Barrier"
    /\ Len(PathEvents) = 2
    /\ Reaches(PathEvents[1].path)
    /\ PathEvents[1].path[fdm.NT + 1] < BarrierL
    /\ ~Reaches(PathEvents[2].path)
    /\ RLt(RInt(0), pr[wired].sum)

C14_Grid ==
    /\ Len(fdm.x) = fdm.NT + 1
    /\ fdm.x[1] = 0
    /\ fdm.k * fdm.NT = Expiry(sde)
    /\ \A j \in 1..fdm.NT : fdm.x[j] < fdm.x[j + 1] /\ fdm.x[j + 1] - fdm.x[j] = fdm.k

\* C15: no operation changes a parameter of the model after construction.
C15_ModelImmutable == [][sde' = sde]_vars

\* C16: ProcessPath() adds one to the counter of the pricer; PostProcess(),
\* Price() and DiscountFactor() leave its sum and its counter as they were.
C16_SumCounterFrame ==
    [][\A k \in Kinds :
          IF lastCall'.op = "ProcessPath"
          THEN pr'[k].NSim = pr[k].NSim + 1
          ELSE pr'[k].sum = pr[k].sum /\ pr'[k].NSim = pr[k].NSim]_vars

C16_Witness ==
    /\ lastCall.op = "DiscountFactor"
    /\ \A k \in Kinds : fin[k] /\ pr[k].NSim = 2
    /\ RLt(RInt(0), pr["European"].sum)

\* C17: when no entry of any processed path is at or above L, the Barrier
\* pricer's finalized price is the European pricer's.
C17_BarrierEqualsVanilla ==
    (Fresh("Barrier") /\ Fresh("European") /\ ~reached) =>
        pr["Barrier"].price = pr["European"].price

C17_Witness ==
    /\ Fresh("Barrier")
    /\ Fresh("European")
    /\ ~reached
    /\ pr["Barrier"].NSim = 2
    /\ RLt(RInt(0), pr["Barrier"].price)

\* C18: entry n of every path is advance(entry n-1, grid point n-1, k, z)
\* for the variate z drawn for that step alone, the (i N + n)-th of the
\* stream; a run makes M N draws.
C18_StepChain ==
    /\ rng.pos = Len(zs)
    /\ rng.pos = i * fdm.NT + (IF pc = "for_n" THEN computed ELSE 0)
    /\ pc = "done" => rng.pos = NSim * fdm.NT
    /\ \A j \in 1..Len(PathEvents) :
          LET e == PathEvents[j]
          IN  \A m \in 1..fdm.NT :
                  e.path[m + 1] = EulerAdvance(fdm, sde, e.path[m], fdm.x[m], fdm.k,
                                               zs[e.i * fdm.NT + m])

C18_Witness ==
    /\ pc = "done"
    /\ NSim = 2
    /\ fdm.NT = 2
    /\ fdm.k > 0
    /\ rng.pos = 4
    /\ zs = <<1, -1, 1, 1>>
    /\ PathEvents[2].path[3] # PathEvents[2].path[2]

MisEvents == SelectSeq(events, LAMBDA e : e.type = "mis")

\* The paths begun so far.
Begun == i + (IF pc = "for_n" THEN 1 ELSE 0)

\* C19: a progress event with index ii is emitted exactly for the paths ii
\* begun with ii mod 100 = 0, once, before path ii is dispatched; emitting
\* it changes no pricer and no dispatched path.
C19_Progress ==
    /\ [](/\ \A ii \in 0..(Begun - 1) :
                (ii % MisPeriod = 0) <=>
                    (\E j \in 1..Len(events) : events[j].type = "mis" /\ events[j].i = ii)
          /\ \A j \in 1..Len(events) :
                events[j].type = "mis" =>
                    /\ events[j].i < NSim
                    /\ PathEventsBefore(j) = events[j].i
                    /\ \A q \in 1..Len(events) :
                          (events[q].type = "mis" /\ events[q].i = events[j].i) => q = j)
    /\ [][Len(MisEvents') > Len(MisEvents) =>
             (pr' = pr /\ brg' = brg /\ PathEvents' = PathEvents)]_vars

C19_Witness ==
    /\ pc = "done"
    /\ NSim = LongRun
    /\ Len(MisEvents) = 2
    /\ MisEvents[2].i = MisPeriod

\* C20: two advance() calls with the same four arguments on schemes of the
\* same class over the same model return the same value, whatever the step
\* count the scheme was constructed with and whatever was called before.
C20_AdvancePure ==
    (/\ adv.last.made
     /\ adv.prev.made
     /\ adv.last.xn = adv.prev.xn
     /\ adv.last.tn = adv.prev.tn
     /\ adv.last.dt = adv.prev.dt
     /\ adv.last.z = adv.prev.z) => adv.last.r = adv.prev.r

\* C28: both builders read the option tuple in its documented order
\* (r, div, sig, T, K, IC, NSim): for the tuple Main made, MCDefaultBuilder and
\* MCBuilder construct a GBM with the same drift r, volatility sig and
\* dividend div, and the model the run uses is that GBM.
C28_BuildersAgree ==
    LET optionData == GetOptionData(opt, InitialCondition(sde), NSim)
        a == GetSde(MCBuilder(optionData))
        b == GetSde(MCDefaultBuilder(optionData))
    IN  /\ a.mu = b.mu /\ a.vol = b.vol /\ a.div = b.div
        /\ a.mu = opt.r /\ a.vol = opt.sig /\ a.div = opt.D
        /\ sde.mu = opt.r /\ sde.vol = opt.sig /\ sde.div = opt.D

\* C27: the Exact scheme as the builder wires it uses the net drift mu - q of
\* the model's drift function: advance(x_n, t_n, dt, Z) returns
\* S0 * exp((mu - q - 0.5 sigma^2)(t_n + dt) + sigma sqrt(t_n + dt) Z), that
\* is, the argument of its exponential is the one with mu - q.
C27_ExactNetDrift ==
    (sch.kind = "Exact" /\ adv.last.made) =>
        LET c == adv.last
            t == c.tn + c.dt
        IN  c.r.e = RAdd(RMul(RSub(RInt(sde.mu - sde.div), Frac(sde.vol * sde.vol, 2)),
                              RInt(t)),
                         RInt(sde.vol * Sqrt(t) * c.z))

\* C21: the bridge pricer draws its uniforms from its own generator: the
\* dispatch of a path to the subscribed pricer leaves the orchestrator's
\* generator at its position and consumes none of its variates, so a second
\* run over the same variates with another pricer subscribed generates the
\* same paths in the same order.
C21_PathsIndependentOfPricer ==
    /\ [][Len(PathEvents') > Len(PathEvents) => rng' = rng /\ zs' = zs]_vars
    /\ [](phase = 2 =>
             /\ first.wired # wired
             /\ \A j \in 1..Len(PathEvents) :
                    PathEvents[j].path =
                        SelectSeq(first.events, LAMBDA e : e.type = "path")[j].path)

\* Both runs are over: the first had the bridge pricer subscribed, which drew
\* uniforms, the second another pricer; two different paths were generated.
C21_Witness ==
    /\ phase = 2
    /\ pc = "done"
    /\ first.wired = "Bridge"
    /\ wired = "Barrier"
    /\ Len(us) > 0
    /\ Len(PathEvents) = 2
    /\ PathEvents[1].path # PathEvents[2].path

\* C24: BoxMullerNet::GenerateRn leaves its rejection loop only with U1 > 0
\* and PolarMarsagliaNet::GenerateRn only with 0 < S <= 1, whatever uniforms
\* in [0, 1) are drawn: the logarithm is taken of a positive number and the
\* division is by a nonzero number.
C24_RejectionLoops ==
    /\ (gen.at = "out" /\ gen.kind = "BoxMuller") => RGt(gen.U1, RInt(0))
    /\ (gen.at = "out" /\ gen.kind = "PolarMarsaglia") =>
           RGt(gen.S, RInt(0)) /\ RLe(gen.S, RInt(1))
    /\ RGt(gen.logOf, RInt(0))
    /\ gen.dividedBy # RInt(0)

\* A second call has left the loop after a first one returned; this one had
\* to repeat the loop, or drew S = 1.
C24_Witness ==
    /\ gen.at = "out"
    /\ gen.calls = 1
    /\ \/ gen.kind = "BoxMuller" /\ gen.logOf # gen.U1
       \/ gen.kind = "PolarMarsaglia" /\ gen.S = RInt(1)

FinishEvents == {j \in DOMAIN events : events[j].type = "finish"}

\* C25: provided every GenerateRn() call returns, start() with M paths of N
\* steps eventually emits the completion event, it emits it exactly once, and
\* no path-completed event follows it.
C25_Terminates ==
    /\ <>[](/\ pc = "done"
            /\ Cardinality(FinishEvents) = 1
            /\ events[Len(events)].type = "finish"
            /\ Len(PathEvents) = NSim)
    /\ [](Cardinality(FinishEvents) <= 1)
    /\ [](\A j \in FinishEvents : \A k \in DOMAIN events :
              events[k].type = "path" => k < j)

\* start() has returned from a run of two paths of two steps each.
C25_Witness ==
    /\ pc = "done"
    /\ NSim = 2
    /\ fdm.NT = 2
    /\ Len(PathEvents) = 2
    /\ Cardinality(FinishEvents) = 1
    /\ events[Len(events)].type = "finish"

\* The value of trajectory ii after m steps, recomputed from the initial
\* condition and the variates the generator delivered for that trajectory.
RECURSIVE TrajectoryValue(_, _)
TrajectoryValue(ii, m) ==
    IF m = 0
    THEN InitialCondition(sde)
    ELSE EulerAdvance(fdm, sde, TrajectoryValue(ii, m - 1), fdm.x[m], fdm.k,
                      zs[ii * fdm.NT + m])

Trajectory(ii) == [m \in 1..(fdm.NT + 1) |-> TrajectoryValue(ii, m - 1)]

\* C26: the path delivered for trajectory i holds only values of trajectory
\* i, entry 0 the initial condition and entries 1..N the chain computed from
\* that trajectory's own variates, although the one buffer is reused; and the
\* accumulator that receives the path leaves the buffer as it was delivered.
C26_PathOwnValues ==
    /\ [](\A j \in DOMAIN events :
              events[j].type = "path" =>
                  /\ Len(zs) >= (events[j].i + 1) * fdm.NT
                  /\ events[j].path = Trajectory(events[j].i))
    /\ [][(Len(events') > Len(events) /\ events'[Len(events')].type = "path") =>
              /\ events'[Len(events')].path = res
              /\ res' = res]_vars

C26_Witness ==
    /\ fdm.NT >= 2
    /\ Len(PathEvents) >= 2
    /\ \A m \in 2..(fdm.NT + 1) : PathEvents[1].path[m] # PathEvents[2].path[m]
    /\ PathEvents[2].path = Trajectory(1)
    /\ res = PathEvents[2].path

\* Once an entry of the path is not finite, no later entry is finite.
StaysNonFinite(path, upto) ==
    \A m \in 1..upto : ~IsFinite(path[m]) => \A q \in m..upto : ~IsFinite(path[q])

\* payoff(S) is not finite: S is NaN, +inf under a call or -inf under a put.
PayoffNonFinite(o, S) ==
    \/ IsNaN(S)
    \/ S = PosInf /\ o.type = 1
    \/ S = NegInf /\ o.type # 1

\* The arithmetic mean of the entries, where some entry is not finite.
MeanOf(path) ==
    LET hasNaN == \E m \in DOMAIN path : IsNaN(path[m])
        hasPos == \E m \in DOMAIN path : path[m] = PosInf
        hasNeg == \E m \in DOMAIN path : path[m] = NegInf
    IN  IF hasNaN \/ (hasPos /\ hasNeg) THEN NaN
        ELSE IF hasPos THEN PosInf
        ELSE IF hasNeg THEN NegInf
        ELSE RInt(0)

\* The amount the pricer of the kind adds for the path is not finite.
Poisons(kind, o, path) ==
    CASE kind = "European" -> PayoffNonFinite(o, path[Len(path)])
      [] kind = "Asian"    -> PayoffNonFinite(o, MeanOf(path))
      [] kind = "Barrier"  ->
            /\ \A m \in DOMAIN path : IsNaN(path[m]) \/ RLt(path[m], RInt(BarrierL))
            /\ PayoffNonFinite(o, path[Len(path)])

SomeNonFinite(path) == \E m \in 2..Len(path) : ~IsFinite(path[m])

Orders(L) == {f \in [1..L -> 1..L] : \A x, y \in 1..L : f[x] = f[y] => x = y}

\* A new pricer of the kind after the paths order[from], ..., order[j] of
\* those fed.
RECURSIVE FoldRange(_, _, _, _)
FoldRange(kind, order, from, j) ==
    IF j < from THEN NewPricer
    ELSE ProcessPath(kind, FoldRange(kind, order, from, j - 1), acc.opt,
                     acc.fed[order[j]], NoScan)

\* The amount a pricer of the kind adds for the path.
Amount(kind, path) == ProcessPath(kind, NewPricer, acc.opt, path, NoScan).sum

\* a + b, finite, is a double: the addition does not round.
AddsExactly(a, b) ==
    RAdd(a, b) = Wide(Big(a) * b.den + Big(b) * a.den, a.num * b.den + b.num * a.den,
                      a.den * b.den)

\* No addition to the sum rounds while the paths order[from..upto] are
\* processed by a new pricer.
ExactRange(kind, order, from, upto) ==
    \A j \in from..upto :
        AddsExactly(FoldRange(kind, order, from, j - 1).sum, Amount(kind, acc.fed[order[j]]))

Merged(a, b) == [sum |-> RAdd(a.sum, b.sum), NSim |-> a.NSim + b.NSim, price |-> RInt(0)]

PriceOf(p) == PostProcess(p, acc.opt).price

AsFed(L) == [j \in 1..L |-> j]

\* C23, as the code has it: for the Vanilla, Asian and Barrier pricers the
\* counter never depends on the order of the paths or on a split into two
\* ranges whose partial sums and counters are added, and the running sum
\* and the finalized price do not depend on them whenever no addition of
\* doubles rounds.
C23_OrderUpToRounding ==
    LET L == Len(acc.fed)
    IN  \A kind \in SummingKinds :
            LET here == acc.pr[kind]
            IN  /\ acc.fin => here.price = PriceOf(here)
                /\ \A order \in Orders(L) :
                      /\ FoldRange(kind, order, 1, L).NSim = here.NSim
                      /\ \A c \in 0..L :
                            FoldRange(kind, order, 1, c).NSim
                                + FoldRange(kind, order, c + 1, L).NSim = here.NSim
                /\ ExactRange(kind, AsFed(L), 1, L) =>
                      \A order \in Orders(L) :
                          /\ ExactRange(kind, order, 1, L) =>
                                /\ FoldRange(kind, order, 1, L).sum = here.sum
                                /\ PriceOf(FoldRange(kind, order, 1, L)) = PriceOf(here)
                          /\ \A c \in 1..(L - 1) :
                                (/\ ExactRange(kind, order, 1, c)
                                 /\ ExactRange(kind, order, c + 1, L)
                                 /\ AddsExactly(FoldRange(kind, order, 1, c).sum,
                                                FoldRange(kind, order, c + 1, L).sum)) =>
                                    /\ RAdd(FoldRange(kind, order, 1, c).sum,
                                            FoldRange(kind, order, c + 1, L).sum) = here.sum
                                    /\ PriceOf(Merged(FoldRange(kind, order, 1, c),
                                                      FoldRange(kind, order, c + 1, L)))
                                           = PriceOf(here)

C23_Witness ==
    /\ pc = "sums"
    /\ acc.fin
    /\ Len(acc.fed) = 3
    /\ acc.opt.type = 1
    /\ acc.fed[1] # acc.fed[2]
    /\ \E j \in 1..2 : acc.fed[j] # <<Huge, Huge>>
    /\ \A order \in Orders(3) : ExactRange("Asian", order, 1, 3)
    /\ acc.pr["Asian"].NSim = 3
    /\ RLt(RInt(0), acc.pr["Asian"].price)

\* C23: for the Vanilla, Asian and Barrier pricers the running sum, the
\* counter and the finalized price after a set of paths do not depend on the
\* order in which the paths are processed, and adding the partial sums and
\* counters of two disjoint ranges before finalization gives the same price.
C23_OrderIndependent ==
    LET L == Len(acc.fed)
    IN  \A kind \in SummingKinds :
            LET here == acc.pr[kind]
            IN  \A order \in Orders(L), c \in 0..L :
                    LET whole == FoldRange(kind, order, 1, L)
                        left  == FoldRange(kind, order, 1, c)
                        right == FoldRange(kind, order, c + 1, L)
                    IN  /\ whole.sum = here.sum
                        /\ whole.NSim = here.NSim
                        /\ PriceOf(whole) = PriceOf(here)
                        /\ PriceOf(Merged(left, right)) = PriceOf(here)

====
